---- MODULE Spec2Model ----
(***************************************************************************)
(* A model of the Lycento SDK for Rust: the device identity provider       *)
(* (src/src/device.rs), the error types (src/src/errors.rs) and the        *)
(* license protocol client (src/src/client.rs).                            *)
(*                                                                         *)
(* Text the code looks into (hostname, OS type, OS release, device id,     *)
(* device name, platform name) is a sequence of one-character strings.     *)
(* Text the code only passes along (license keys, API keys, messages) is   *)
(* a TLA+ string.  Option<T> is <<>> (None) or <<v>> (Some(v)).            *)
(***************************************************************************)
EXTENDS Integers, Sequences, FiniteSets, TLC

VARIABLES
  base_url,     \* LycentoClient.base_url
  api_key,      \* LycentoClient.api_key : Option<String>
  os,           \* what sys_info reports now: [hostname, os_type, os_release]
  cell,         \* CACHED_DEVICE_ID : Lazy<String>
  pc,           \* per caller: where its invocation stands
  op,           \* per caller: the operation invoked
  opts,         \* per caller: the options the caller passed
  dev,          \* per caller: the device id its invocation obtained
  reqs,         \* per caller: the HTTP requests its invocation has sent
  resp,         \* per caller: the HTTP exchange's outcome
  result        \* per caller: what the invocation returned

vars == <<base_url, api_key, os, cell, pc, op, opts, dev, reqs, resp, result>>

---------------------------------------------------------------------------
(* Option<T> *)

None == <<>>

Some(v) == <<v>>

IsSome(o) == o # <<>>

\* Option::unwrap_or
unwrap_or(o, d) == IF o = <<>> THEN d ELSE o[1]

---------------------------------------------------------------------------
(* Text as a sequence of characters *)

Take(s, n) == SubSeq(s, 1, IF n < Len(s) THEN n ELSE Len(s))

LowerAlpha ==
  <<"a","b","c","d","e","f","g","h","i","j","k","l","m",
    "n","o","p","q","r","s","t","u","v","w","x","y","z">>

UpperAlpha ==
  <<"A","B","C","D","E","F","G","H","I","J","K","L","M",
    "N","O","P","Q","R","S","T","U","V","W","X","Y","Z">>

DigitChars == <<"0","1","2","3","4","5","6","7","8","9">>

HexChars == <<"0","1","2","3","4","5","6","7","8","9","a","b","c","d","e","f">>

IndexIn(c, s) == CHOOSE i \in 1..Len(s) : s[i] = c

InSeq(c, s) == \E i \in 1..Len(s) : s[i] = c

\* The UTF-8 byte of an ASCII character (str::as_bytes).
ByteOf(c) ==
  IF InSeq(c, LowerAlpha) THEN 96 + IndexIn(c, LowerAlpha)
  ELSE IF InSeq(c, UpperAlpha) THEN 64 + IndexIn(c, UpperAlpha)
  ELSE IF InSeq(c, DigitChars) THEN 47 + IndexIn(c, DigitChars)
  ELSE IF c = " " THEN 32
  ELSE IF c = "-" THEN 45
  ELSE IF c = "." THEN 46
  ELSE 95  \* "_"

as_bytes(s) == [i \in 1..Len(s) |-> ByteOf(s[i])]

\* char::to_lowercase on ASCII
LowerChar(c) == IF InSeq(c, UpperAlpha) THEN LowerAlpha[IndexIn(c, UpperAlpha)] ELSE c

to_lowercase(s) == [i \in 1..Len(s) |-> LowerChar(s[i])]

\* str::contains
contains(s, pat) ==
  \E i \in 0..(Len(s) - Len(pat)) : SubSeq(s, i + 1, i + Len(pat)) = pat

---------------------------------------------------------------------------
(* SHA-256 (the sha2 crate's Sha256), on 32-bit words kept as <<high 16    *)
(* bits, low 16 bits>>, and hex::encode.                                   *)

Sha256K ==
  <<<<17034, 12184>>, <<28983, 17553>>, <<46528, 64463>>, <<59829, 56229>>,
     <<14678, 49755>>, <<23025, 4593>>, <<37439, 33444>>, <<43804, 24277>>,
     <<55303, 43672>>, <<4739, 23297>>, <<9265, 34238>>, <<21772, 32195>>,
     <<29374, 23924>>, <<32990, 45566>>, <<39900, 1703>>, <<49563, 61812>>,
     <<58523, 27073>>, <<61374, 18310>>, <<4033, 40390>>, <<9228, 41420>>,
     <<11753, 11375>>, <<19060, 33962>>, <<23728, 43484>>, <<30457, 35034>>,
     <<38974, 20818>>, <<43057, 50797>>, <<45059, 10184>>, <<48985, 32711>>,
     <<50912, 3059>>, <<54695, 37191>>, <<1738, 25425>>, <<5161, 10599>>,
     <<10167, 2693>>, <<11803, 8504>>, <<19756, 28156>>, <<21304, 3347>>,
     <<25866, 29524>>, <<30314, 2747>>, <<33218, 51502>>, <<37490, 11397>>,
     <<41663, 59553>>, <<43034, 26187>>, <<49739, 35696>>, <<51052, 20899>>,
     <<53650, 59417>>, <<54937, 1572>>, <<62478, 13701>>, <<4202, 41072>>,
     <<6564, 49430>>, <<7735, 27656>>, <<10056, 30540>>, <<13488, 48309>>,
     <<14620, 3251>>, <<20184, 43594>>, <<23452, 51791>>, <<26670, 28659>>,
     <<29839, 33518>>, <<30885, 25455>>, <<33992, 30740>>, <<36039, 520>>,
     <<37054, 65530>>, <<42064, 27883>>, <<48889, 41975>>, <<50801, 30962>>>>

Sha256H0 ==
  <<<<27145, 58983>>, <<47975, 44677>>, <<15470, 62322>>, <<42319, 62778>>,
     <<20750, 21119>>, <<39685, 26764>>, <<8067, 55723>>, <<23520, 52505>>>>

RECURSIVE Xor16(_, _, _)
Xor16(a, b, n) ==
  IF n = 0 THEN 0
  ELSE ((a + b) % 2) + 2 * Xor16(a \div 2, b \div 2, n - 1)

RECURSIVE And16(_, _, _)
And16(a, b, n) ==
  IF n = 0 THEN 0
  ELSE ((a % 2) * (b % 2)) + 2 * And16(a \div 2, b \div 2, n - 1)

WXor(a, b) == <<Xor16(a[1], b[1], 16), Xor16(a[2], b[2], 16)>>

WAnd(a, b) == <<And16(a[1], b[1], 16), And16(a[2], b[2], 16)>>

WNot(a) == <<65535 - a[1], 65535 - a[2]>>

WAdd(a, b) ==
  LET lo == a[2] + b[2]
  IN  <<(a[1] + b[1] + (lo \div 65536)) % 65536, lo % 65536>>

\* rotate right by n, 0 < n < 32
WRotr(a, n) ==
  LET x == IF n >= 16 THEN <<a[2], a[1]>> ELSE a
      k == IF n >= 16 THEN n - 16 ELSE n
  IN  IF k = 0 THEN x
      ELSE <<(x[2] % (2 ^ k)) * (2 ^ (16 - k)) + (x[1] \div (2 ^ k)),
             (x[1] % (2 ^ k)) * (2 ^ (16 - k)) + (x[2] \div (2 ^ k))>>

\* shift right by n, 0 < n < 16
WShr(a, n) ==
  <<a[1] \div (2 ^ n), (a[1] % (2 ^ n)) * (2 ^ (16 - n)) + (a[2] \div (2 ^ n))>>

\* message padding: 0x80, zeros to 56 mod 64, the bit length as 64 bits
RECURSIVE Zeros(_)
Zeros(n) == IF n = 0 THEN <<>> ELSE <<0>> \o Zeros(n - 1)

Sha256Pad(bytes) ==
  LET len == Len(bytes)
      z == (119 - (len % 64)) % 64
      bits == 8 * len
  IN  bytes \o <<128>> \o Zeros(z) \o
      <<0, 0, 0, 0, 0, (bits \div 65536) % 256, (bits \div 256) % 256, bits % 256>>

\* the 16 big-endian words of block b (from 0) of the padded message
BlockWords(m, b) ==
  [j \in 1..16 |->
     LET o == 64 * b + 4 * (j - 1)
     IN  <<256 * m[o + 1] + m[o + 2], 256 * m[o + 3] + m[o + 4]>>]

SmallSigma0(x) == WXor(WXor(WRotr(x, 7), WRotr(x, 18)), WShr(x, 3))

SmallSigma1(x) == WXor(WXor(WRotr(x, 17), WRotr(x, 19)), WShr(x, 10))

BigSigma0(x) == WXor(WXor(WRotr(x, 2), WRotr(x, 13)), WRotr(x, 22))

BigSigma1(x) == WXor(WXor(WRotr(x, 6), WRotr(x, 11)), WRotr(x, 25))

Ch(e, f, g) == WXor(WAnd(e, f), WAnd(WNot(e), g))

Maj(a, b, c) == WXor(WXor(WAnd(a, b), WAnd(a, c)), WAnd(b, c))

RECURSIVE Schedule(_)
Schedule(w) ==
  IF Len(w) = 64 THEN w
  ELSE LET t == Len(w) + 1
       IN  Schedule(Append(w,
             WAdd(WAdd(w[t - 16], SmallSigma0(w[t - 15])),
                  WAdd(w[t - 7], SmallSigma1(w[t - 2])))))

RECURSIVE Rounds(_, _, _)
Rounds(s, w, t) ==
  IF t > 64 THEN s
  ELSE LET t1 == WAdd(WAdd(WAdd(s[8], BigSigma1(s[5])), Ch(s[5], s[6], s[7])),
                      WAdd(Sha256K[t], w[t]))
           t2 == WAdd(BigSigma0(s[1]), Maj(s[1], s[2], s[3]))
           n == <<WAdd(t1, t2), s[1], s[2], s[3], WAdd(s[4], t1), s[5], s[6], s[7]>>
       IN  IF Len(n) = 8 THEN Rounds(n, w, t + 1) ELSE n

Compress(h, block) ==
  LET s == Rounds(h, Schedule(block), 1)
  IN  [i \in 1..8 |-> WAdd(h[i], s[i])]

RECURSIVE Blocks(_, _, _)
Blocks(h, m, b) ==
  IF 64 * b >= Len(m) THEN h
  ELSE Blocks(Compress(h, BlockWords(m, b)), m, b + 1)

\* the 32 bytes of the digest
Sha256(bytes) ==
  LET h == Blocks(Sha256H0, Sha256Pad(bytes), 0)
  IN  [i \in 1..32 |->
         LET w == h[((i - 1) \div 4) + 1]
             k == (i - 1) % 4
         IN  IF k = 0 THEN w[1] \div 256
             ELSE IF k = 1 THEN w[1] % 256
             ELSE IF k = 2 THEN w[2] \div 256
             ELSE w[2] % 256]

\* hex::encode: two lower-case hex digits per byte
hex_encode(bytes) ==
  [i \in 1..(2 * Len(bytes)) |->
     LET b == bytes[(i + 1) \div 2]
     IN  HexChars[(IF i % 2 = 1 THEN b \div 16 ELSE b % 16) + 1]]

---------------------------------------------------------------------------
(* serde_json::Value.  A response body that is not JSON is NotJson.        *)

JNull == [t |-> "null"]

JBool(b) == [t |-> "bool", b |-> b]

JNum(n) == [t |-> "num", n |-> n]

JStr(s) == [t |-> "str", s |-> s]

JArr(a) == [t |-> "arr", a |-> a]

JObj(o) == [t |-> "obj", o |-> o]

NotJson == [t |-> "invalid"]

\* Value::get with a string index: a member of an object, None otherwise
Get(j, k) == IF j.t = "obj" /\ k \in DOMAIN j.o THEN Some(j.o[k]) ELSE None

\* Value::as_str
as_str(j) == IF j.t = "str" THEN Some(j.s) ELSE None

\* Value::as_bool
as_bool(j) == IF j.t = "bool" THEN Some(j.b) ELSE None

---------------------------------------------------------------------------
(* Results and the error types of errors.rs.  Every error type is an enum  *)
(* with the one variant Custom(String); ty names the type.                 *)

Ok(v) == [ok |-> TRUE, val |-> v]

Err(ty, msg) == [ok |-> FALSE, ty |-> ty, msg |-> msg]

\* a value returned without a Result around it
Plain(v) == [plain |-> v]

LycentoError_new(message) == Err("LycentoError", message)

ActivationError_new(message) == Err("ActivationError", message)

ValidationError_new(message) == Err("ValidationError", message)

DeactivationError_new(message) == Err("DeactivationError", message)

\* LycentoError::message
message(e) == e.msg

ActivationError_from(err) == Err("ActivationError", message(err))

ValidationError_from(err) == Err("ValidationError", message(err))

DeactivationError_from(err) == Err("DeactivationError", message(err))

---------------------------------------------------------------------------
(* serde: the Deserialize impls derived for the response structs           *)
(* (rename_all = "camelCase").  A field is <<rust name, JSON key, type>>.  *)

TBool == [k |-> "bool"]

TString == [k |-> "string"]

TU32 == [k |-> "u32"]

TOption(ty) == [k |-> "option", of |-> ty]

TVec(ty) == [k |-> "vec", of |-> ty]

TStruct(name) == [k |-> "struct", name |-> name]

LicenseInfoFields ==
  << <<"key", "key", TString>>,
     <<"status", "status", TString>>,
     <<"license_type", "type", TString>>,
     <<"expires_at", "expiresAt", TOption(TString)>>,
     <<"max_devices", "maxDevices", TU32>>,
     <<"active_devices", "activeDevices", TOption(TU32)>> >>

ActivationDetailsFields ==
  << <<"id", "id", TU32>>,
     <<"device_id", "deviceId", TString>>,
     <<"device_name", "deviceName", TString>>,
     <<"device_platform", "devicePlatform", TString>>,
     <<"activated_at", "activatedAt", TString>>,
     <<"last_validated_at", "lastValidatedAt", TOption(TString)>> >>

DeactivationDetailsFields ==
  << <<"id", "id", TU32>>,
     <<"device_id", "deviceId", TString>>,
     <<"deactivated_at", "deactivatedAt", TString>> >>

ActivationRecordFields ==
  << <<"id", "id", TU32>>,
     <<"device_id", "deviceId", TString>>,
     <<"device_name", "deviceName", TString>>,
     <<"device_platform", "devicePlatform", TString>>,
     <<"activated_at", "activatedAt", TString>>,
     <<"deactivated_at", "deactivatedAt", TOption(TString)>>,
     <<"is_active", "isActive", TBool>> >>

ActivateResponseFields ==
  << <<"success", "success", TBool>>,
     <<"license", "license", TStruct("LicenseInfo")>>,
     <<"activation", "activation", TStruct("ActivationDetails")>> >>

ValidateResponseFields ==
  << <<"valid", "valid", TBool>>,
     <<"license", "license", TStruct("LicenseInfo")>>,
     <<"activation", "activation", TOption(TStruct("ActivationDetails"))>> >>

DeactivateResponseFields ==
  << <<"success", "success", TBool>>,
     <<"message", "message", TString>>,
     <<"activation", "activation", TStruct("DeactivationDetails")>> >>

LicenseInfoResponseFields ==
  << <<"license", "license", TStruct("LicenseInfo")>>,
     <<"activations", "activations", TVec(TStruct("ActivationRecord"))>> >>

FieldsOf(name) ==
  CASE name = "LicenseInfo" -> LicenseInfoFields
    [] name = "ActivationDetails" -> ActivationDetailsFields
    [] name = "DeactivationDetails" -> DeactivationDetailsFields
    [] name = "ActivationRecord" -> ActivationRecordFields
    [] name = "ActivateResponse" -> ActivateResponseFields
    [] name = "ValidateResponse" -> ValidateResponseFields
    [] name = "DeactivateResponse" -> DeactivateResponseFields
    [] name = "LicenseInfoResponse" -> LicenseInfoResponseFields

\* the fields marked #[serde(default)]
HasDefault(name, field) ==
  \/ name = "LicenseInfo" /\ field = "active_devices"
  \/ name = "ActivationDetails" /\ field = "last_validated_at"

\* what serde's "invalid type" message calls the value it found
Unexpected(j) ==
  CASE j.t = "null" -> "null"
    [] j.t = "bool" -> "boolean"
    [] j.t = "num" -> "integer"
    [] j.t = "str" -> "string"
    [] j.t = "arr" -> "sequence"
    [] j.t = "obj" -> "map"

Expecting(ty) ==
  CASE ty.k = "bool" -> "a boolean"
    [] ty.k = "string" -> "a string"
    [] ty.k = "u32" -> "u32"
    [] ty.k = "option" -> "option"
    [] ty.k = "vec" -> "a sequence"
    [] ty.k = "struct" -> "struct " \o ty.name

InvalidType(j, ty) ==
  [ok |-> FALSE, msg |-> "invalid type: " \o Unexpected(j) \o ", expected " \o Expecting(ty)]

\* the first failure of a sequence of results, or none
RECURSIVE FirstFailure(_, _)
FirstFailure(rs, i) ==
  IF i > Len(rs) THEN None
  ELSE IF rs[i].ok THEN FirstFailure(rs, i + 1)
  ELSE Some(rs[i])

\* the first failure that is not a missing field, or none
RECURSIVE FirstMismatch(_, _)
FirstMismatch(rs, i) ==
  IF i > Len(rs) THEN None
  ELSE IF rs[i].ok \/ "missing" \in DOMAIN rs[i] THEN FirstMismatch(rs, i + 1)
  ELSE Some(rs[i])

\* the Rust struct of the fields fs read as rs
StructOf(fs, rs) ==
  [nm \in {fs[i][1] : i \in 1..Len(fs)} |->
     rs[CHOOSE i \in 1..Len(fs) : fs[i][1] = nm].val]

RECURSIVE from_value(_, _)
RECURSIVE read_elements(_, _, _)
RECURSIVE read_members(_, _, _)
RECURSIVE read_positions(_, _, _, _)

\* the elements of the JSON array a from the i-th on, read as ty
read_elements(ty, a, i) ==
  IF i > Len(a) THEN <<>>
  ELSE <<from_value(ty, a[i])>> \o read_elements(ty, a, i + 1)

\* the fields fs from the i-th on, read from the members of the JSON object o:
\* an absent member is None for an Option field, a failure otherwise
read_members(fs, o, i) ==
  IF i > Len(fs) THEN <<>>
  ELSE << IF fs[i][2] \in DOMAIN o THEN from_value(fs[i][3], o[fs[i][2]])
          ELSE IF fs[i][3].k = "option" THEN [ok |-> TRUE, val |-> None]
          ELSE [ok |-> FALSE, missing |-> TRUE, msg |-> "missing field " \o fs[i][2]] >>
       \o read_members(fs, o, i + 1)

\* the fields fs of struct name from the i-th on, read from the JSON array a
\* by position: an absent element is the default for a #[serde(default)]
\* field, a failure otherwise
read_positions(name, fs, a, i) ==
  IF i > Len(fs) THEN <<>>
  ELSE << IF i <= Len(a) THEN from_value(fs[i][3], a[i])
          ELSE IF HasDefault(name, fs[i][1]) THEN [ok |-> TRUE, val |-> None]
          ELSE [ok |-> FALSE, msg |-> "invalid length"] >>
       \o read_positions(name, fs, a, i + 1)

\* serde_json::from_value::<T>(j): [ok |-> TRUE, val |-> the Rust value] or
\* [ok |-> FALSE, msg |-> the serde_json::Error's text].  A struct is read
\* from a JSON object by key (unknown keys ignored; a member of the wrong
\* type is reported while the map is read, a missing field after it) or from
\* a JSON array by position.
from_value(ty, j) ==
  CASE ty.k = "bool" ->
         IF j.t = "bool" THEN [ok |-> TRUE, val |-> j.b] ELSE InvalidType(j, ty)
    [] ty.k = "string" ->
         IF j.t = "str" THEN [ok |-> TRUE, val |-> j.s] ELSE InvalidType(j, ty)
    [] ty.k = "u32" ->
         IF j.t # "num" THEN InvalidType(j, ty)
         ELSE IF j.n < 0 THEN [ok |-> FALSE, msg |-> "invalid value: integer, expected u32"]
         ELSE [ok |-> TRUE, val |-> j.n]
    [] ty.k = "option" ->
         IF j.t = "null" THEN [ok |-> TRUE, val |-> None]
         ELSE LET r == from_value(ty.of, j)
              IN  IF r.ok THEN [ok |-> TRUE, val |-> Some(r.val)] ELSE r
    [] ty.k = "vec" ->
         IF j.t # "arr" THEN InvalidType(j, ty)
         ELSE LET rs == read_elements(ty.of, j.a, 1)
                  bad == FirstFailure(rs, 1)
              IN  IF bad # None THEN [ok |-> FALSE, msg |-> bad[1].msg]
                  ELSE [ok |-> TRUE, val |-> [i \in 1..Len(rs) |-> rs[i].val]]
    [] ty.k = "struct" ->
         LET fs == FieldsOf(ty.name)
         IN  IF j.t = "obj" THEN
               LET rs == read_members(fs, j.o, 1)
                   bad == IF FirstMismatch(rs, 1) # None
                            THEN FirstMismatch(rs, 1) ELSE FirstFailure(rs, 1)
               IN  IF bad # None THEN [ok |-> FALSE, msg |-> bad[1].msg]
                   ELSE [ok |-> TRUE, val |-> StructOf(fs, rs)]
             ELSE IF j.t = "arr" THEN
               LET rs == read_positions(ty.name, fs, j.a, 1)
                   bad == FirstFailure(rs, 1)
               IN  IF bad # None THEN [ok |-> FALSE, msg |-> bad[1].msg]
                   ELSE IF Len(j.a) > Len(fs) THEN [ok |-> FALSE, msg |-> "invalid length"]
                   ELSE [ok |-> TRUE, val |-> StructOf(fs, rs)]
             ELSE InvalidType(j, ty)

---------------------------------------------------------------------------
(* device.rs *)

S_windows == <<"w","i","n","d","o","w","s">>

S_macos == <<"m","a","c","o","s">>

S_darwin == <<"d","a","r","w","i","n">>

S_linux == <<"l","i","n","u","x">>

S_android == <<"a","n","d","r","o","i","d">>

S_ios == <<"i","o","s">>

S_unknown == <<"u","n","k","n","o","w","n">>

S_device_ == <<"d","e","v","i","c","e","-">>

S_x86_64 == <<"x","8","6","_","6","4">>

\* Platform::as_str
Platform_as_str(p) ==
  CASE p = "Windows" -> S_windows
    [] p = "Macos" -> S_macos
    [] p = "Linux" -> S_linux
    [] p = "Android" -> S_android
    [] p = "Ios" -> S_ios
    [] p = "Unknown" -> S_unknown

\* Result::unwrap_or_default on a sys_info string
unwrap_or_default(o) == IF o = None THEN <<>> ELSE o[1]

\* generate_device_id with "unknown" for a hostname sys_info cannot give
generate_device_id_unknown_host(e) ==
  LET hostname == IF e.hostname = None THEN S_unknown ELSE e.hostname[1]
      os_type == unwrap_or_default(e.os_type)
      os_release == unwrap_or_default(e.os_release)
      combined == hostname \o <<"-">> \o os_type \o <<"-">> \o os_release
  IN  SubSeq(hex_encode(Sha256(as_bytes(combined))), 1, 32)

\* generate_device_id, reading sys_info as e reports it
generate_device_id(e) ==
  LET hostname == unwrap_or_default(e.hostname)
      os_type == unwrap_or_default(e.os_type)
      os_release == unwrap_or_default(e.os_release)
      combined == hostname \o <<"-">> \o os_type \o <<"-">> \o os_release
  IN  SubSeq(hex_encode(Sha256(as_bytes(combined))), 1, 32)

\* get_platform with "android" looked for in the OS type only, before "linux"
get_platform_flat(e) ==
  LET os_type == to_lowercase(unwrap_or_default(e.os_type))
  IN  IF contains(os_type, S_windows) THEN "Windows"
      ELSE IF contains(os_type, S_darwin) \/ contains(os_type, S_macos) THEN "Macos"
      ELSE IF contains(os_type, S_android) THEN "Android"
      ELSE IF contains(os_type, S_linux) THEN "Linux"
      ELSE IF contains(os_type, S_ios) THEN "Ios"
      ELSE "Unknown"

\* get_platform
get_platform(e) ==
  LET os_type == to_lowercase(unwrap_or_default(e.os_type))
  IN  IF contains(os_type, S_windows) THEN "Windows"
      ELSE IF contains(os_type, S_darwin) \/ contains(os_type, S_macos) THEN "Macos"
      ELSE IF contains(os_type, S_linux) THEN
        LET os_release == to_lowercase(unwrap_or_default(e.os_release))
        IN  IF contains(os_release, S_android) THEN "Android" ELSE "Linux"
      ELSE IF contains(os_type, S_ios) THEN "Ios"
      ELSE IF contains(os_type, S_android) THEN "Android"
      ELSE "Unknown"

S_Unknown == <<"U","n","k","n","o","w","n">>

\* get_device_name without the test that the hostname is not empty
get_device_name_any_host(e, id) ==
  IF e.hostname # None
    THEN LET hostname == e.hostname[1]
             username == IF e.info = None THEN <<>>
                         ELSE unwrap_or_default(e.info[1].username)
         IN  IF e.windows /\ e.info # None /\ username # <<>> /\ username # S_Unknown
               THEN username \o <<"-">> \o hostname
               ELSE hostname
  ELSE S_device_ \o SubSeq(id, 1, 8)

\* get_device_name; id is what get_device_id returns.  e.windows tells
\* whether the build's target_os is "windows", the one build that compiles
\* the block that asks sys_info::info() for the user name.
get_device_name(e, id) ==
  IF e.hostname # None /\ e.hostname[1] # <<>>
    THEN LET hostname == e.hostname[1]
             username == IF e.info = None THEN <<>>
                         ELSE unwrap_or_default(e.info[1].username)
         IN  IF e.windows /\ e.info # None /\ username # <<>> /\ username # S_Unknown
               THEN username \o <<"-">> \o hostname
               ELSE hostname
  ELSE S_device_ \o SubSeq(id, 1, 8)

\* get_platform_version
get_platform_version(e) == IF e.os_release = None THEN S_unknown ELSE e.os_release[1]

\* get_architecture (a build whose target_arch is "x86_64")
get_architecture == S_x86_64

\* get_device_info, once get_device_id has returned id
get_device_info(e, id) ==
  [device_id |-> id,
   device_name |-> get_device_name(e, id),
   platform |-> get_platform(e),
   platform_version |-> get_platform_version(e),
   architecture |-> get_architecture]

---------------------------------------------------------------------------
(* client.rs: what an HTTP exchange gives back.  The exchange ends either  *)
(* in a reqwest::Error of send() or in a response with a status and a      *)
(* body.                                                                   *)

Transport(err) == [kind |-> "transport", err |-> err]

Http(status, body) == [kind |-> "http", status |-> status, body |-> body]

\* the reqwest::Error of Response::json() on a body that is not JSON
DecodeError ==
  [is_connect |-> FALSE, is_timeout |-> FALSE, is_request |-> FALSE,
   text |-> "error decoding response body"]

\* impl From<reqwest::Error> for LycentoError
LycentoError_from(err) == Err("LycentoError", err.text)

\* StatusCode::is_success
is_success(status) == status >= 200 /\ status < 300

\* StatusCode's Display: the code and its canonical reason
StatusDisplay(status) ==
  CASE status = 200 -> "200 OK"
    [] status = 201 -> "201 Created"
    [] status = 400 -> "400 Bad Request"
    [] status = 404 -> "404 Not Found"
    [] status = 422 -> "422 Unprocessable Entity"
    [] status = 429 -> "429 Too Many Requests"
    [] status = 500 -> "500 Internal Server Error"

\* LycentoClient::handle_network_error
handle_network_error(error) ==
  IF error.is_connect \/ error.is_timeout \/ error.is_request
    THEN LycentoError_new("Network error - please check your connection")
    ELSE LycentoError_new(error.text)

\* handle_error_response with the server's text used for every status
handle_error_response_text_first(status, json) ==
  LET field == IF Get(json, "error") # None THEN Get(json, "error")
               ELSE Get(json, "message")
      text == IF field = None THEN None ELSE as_str(field[1])
  IN  IF text # None THEN LycentoError_new(text[1])
      ELSE CASE status = 404 -> LycentoError_new("License not found")
             [] status = 429 ->
                  LycentoError_new("Rate limit exceeded - please try again later")
             [] OTHER -> LycentoError_new("Server error: " \o StatusDisplay(status)
                                          \o " - Unknown error")

\* LycentoClient::handle_error_response
handle_error_response(status, json) ==
  LET field == IF Get(json, "error") # None THEN Get(json, "error")
               ELSE Get(json, "message")
      text == IF field = None THEN None ELSE as_str(field[1])
      error_message == unwrap_or(text, "Unknown error")
  IN  CASE status = 404 -> LycentoError_new("License not found")
        [] status = 422 -> LycentoError_new(error_message)
        [] status = 429 -> LycentoError_new("Rate limit exceeded - please try again later")
        [] OTHER -> LycentoError_new("Server error: " \o StatusDisplay(status)
                                     \o " - " \o error_message)

\* handle_response with the status looked at before the body is parsed
handle_response_status_first(response) ==
  LET status == response.status
  IN  IF ~is_success(status)
        THEN CASE status = 404 -> LycentoError_new("License not found")
               [] status = 429 ->
                    LycentoError_new("Rate limit exceeded - please try again later")
               [] OTHER -> LycentoError_new("Server error: " \o StatusDisplay(status)
                                            \o " - Unknown error")
      ELSE IF response.body = NotJson THEN LycentoError_from(DecodeError)
      ELSE Ok(response.body)

\* LycentoClient::handle_response
handle_response(response) ==
  LET status == response.status
  IN  IF response.body = NotJson THEN LycentoError_from(DecodeError)
      ELSE IF is_success(status) THEN Ok(response.body)
      ELSE handle_error_response(status, response.body)

\* LycentoClient::post, from send() on: x is what the exchange gave back
post(x) ==
  IF x.kind = "transport" THEN handle_network_error(x.err)
  ELSE handle_response(x)

\* the embedded `error` string of a body, if any
EmbeddedError(json) ==
  IF Get(json, "error") = None THEN None ELSE as_str(Get(json, "error")[1])

\* the embedded `success` boolean of a body, if any
EmbeddedSuccess(json) ==
  IF Get(json, "success") = None THEN None ELSE as_bool(Get(json, "success")[1])

\* serde_json::from_value(json).map_err(|e| E::new(e.to_string()))
Deserialize(name, json, ty) ==
  LET r == from_value(TStruct(name), json)
  IN  IF r.ok THEN Ok(r.val) ELSE Err(ty, r.msg)

\* handle_activation_response without the check of the success flag
handle_activation_response_no_flag(json) ==
  IF Get(json, "error") # None /\ as_str(Get(json, "error")[1]) # None
    THEN Err("ActivationError", as_str(Get(json, "error")[1])[1])
  ELSE LET r == from_value(TStruct("ActivateResponse"), json)
       IN  IF r.ok THEN Ok(r.val) ELSE Err("ActivationError", r.msg)

\* LycentoClient::handle_activation_response
handle_activation_response(json) ==
  IF EmbeddedError(json) # None THEN ActivationError_new(EmbeddedError(json)[1])
  ELSE IF EmbeddedSuccess(json) = Some(FALSE)
    THEN ActivationError_new(unwrap_or(EmbeddedError(json), "Activation failed"))
  ELSE Deserialize("ActivateResponse", json, "ActivationError")

\* LycentoClient::handle_validation_response
handle_validation_response(json) ==
  IF EmbeddedError(json) # None THEN ValidationError_new(EmbeddedError(json)[1])
  ELSE Deserialize("ValidateResponse", json, "ValidationError")

\* LycentoClient::handle_deactivation_response
handle_deactivation_response(json) ==
  IF EmbeddedError(json) # None THEN DeactivationError_new(EmbeddedError(json)[1])
  ELSE IF EmbeddedSuccess(json) = Some(FALSE)
    THEN DeactivationError_new(unwrap_or(EmbeddedError(json), "Deactivation failed"))
  ELSE Deserialize("DeactivateResponse", json, "DeactivationError")

\* LycentoClient::activate, from post on
activate(x) ==
  LET response == post(x)
  IN  IF ~response.ok THEN ActivationError_from(response)
      ELSE handle_activation_response(response.val)

\* LycentoClient::validate, from post on
validate(x) ==
  LET response == post(x)
  IN  IF ~response.ok THEN ValidationError_from(response)
      ELSE handle_validation_response(response.val)

\* LycentoClient::deactivate, from post on
deactivate(x) ==
  LET response == post(x)
  IN  IF ~response.ok THEN DeactivationError_from(response)
      ELSE handle_deactivation_response(response.val)

\* LycentoClient::get_info, from send() on
get_info(x) ==
  IF x.kind = "transport" THEN LycentoError_from(x.err)
  ELSE IF x.body = NotJson THEN LycentoError_from(DecodeError)
  ELSE IF is_success(x.status)
    THEN Deserialize("LicenseInfoResponse", x.body, "LycentoError")
  ELSE handle_error_response(x.status, x.body)

\* is_valid with unwrap_or(true)
is_valid_or_true(x) ==
  IF x.kind = "http" /\ x.body # NotJson /\ is_success(x.status)
     /\ Get(x.body, "valid") = Some(JBool(FALSE))
    THEN [plain |-> FALSE]
    ELSE [plain |-> TRUE]

\* LycentoClient::is_valid, from the validate call's send() on
is_valid(x) ==
  LET r == validate(x)
  IN  Plain(IF r.ok THEN r.val.valid ELSE FALSE)

\* LycentoClient::get_active_device_count, from get_info's send() on
get_active_device_count(x) ==
  LET info == get_info(x)
  IN  IF ~info.ok THEN info
      ELSE Ok(unwrap_or(info.val.license.active_devices, 0))

\* can_activate with <= for <
can_activate_le(x) ==
  IF x.kind = "transport" THEN Err("LycentoError", x.err.text)
  ELSE IF x.body = NotJson THEN Err("LycentoError", DecodeError.text)
  ELSE IF ~is_success(x.status) THEN handle_error_response(x.status, x.body)
  ELSE LET r == from_value(TStruct("LicenseInfoResponse"), x.body)
       IN  IF ~r.ok THEN Err("LycentoError", r.msg)
           ELSE Ok(unwrap_or(r.val.license.active_devices, 0) <= r.val.license.max_devices)

\* LycentoClient::can_activate, from get_info's send() on
can_activate(x) ==
  LET info == get_info(x)
  IN  IF ~info.ok THEN info
      ELSE LET active == unwrap_or(info.val.license.active_devices, 0)
           IN  Ok(active < info.val.license.max_devices)

---------------------------------------------------------------------------
(* client.rs: options and requests *)

\* ActivateOptions::new
ActivateOptions_new(license_key) ==
  [license_key |-> license_key, device_id |-> None, device_name |-> None,
   device_platform |-> None, ip_address |-> None]

\* ActivateOptions::with_device_id
Activate_with_device_id(o, device_id) == [o EXCEPT !.device_id = Some(device_id)]

\* ActivateOptions::with_device_name
Activate_with_device_name(o, device_name) == [o EXCEPT !.device_name = Some(device_name)]

\* ActivateOptions::with_platform
Activate_with_platform(o, platform) ==
  [o EXCEPT !.device_platform = Some(Platform_as_str(platform))]

\* ActivateOptions::with_ip_address
Activate_with_ip_address(o, ip_address) == [o EXCEPT !.ip_address = Some(ip_address)]

\* ValidateOptions::new
ValidateOptions_new(license_key) == [license_key |-> license_key, device_id |-> None]

\* ValidateOptions::with_device_id
Validate_with_device_id(o, device_id) == [o EXCEPT !.device_id = Some(device_id)]

\* DeactivateOptions::new
DeactivateOptions_new(license_key, device_id) ==
  [license_key |-> license_key, device_id |-> device_id]

\* the payload of activate with the device's own id whatever the caller set
activate_payload_own_id(options, device_info) ==
  [license_key |-> options.license_key,
   device_id |-> device_info.device_id,
   device_name |-> unwrap_or(options.device_name, device_info.device_name),
   device_platform |-> unwrap_or(options.device_platform,
                                 Platform_as_str(device_info.platform)),
   ip_address |-> options.ip_address]

\* the json! payload of activate; a None ip_address is JSON null
activate_payload(options, device_info) ==
  [license_key |-> options.license_key,
   device_id |-> unwrap_or(options.device_id, device_info.device_id),
   device_name |-> unwrap_or(options.device_name, device_info.device_name),
   device_platform |-> unwrap_or(options.device_platform,
                                 Platform_as_str(device_info.platform)),
   ip_address |-> options.ip_address]

\* the json! payload of validate
validate_payload(options, device_id) ==
  [license_key |-> options.license_key, device_id |-> device_id]

\* the payload of deactivate without the device_id
deactivate_payload_key_only(options) ==
  [license_key |-> options.license_key, device_id |-> <<>>]

\* the json! payload of deactivate
deactivate_payload(options) ==
  [license_key |-> options.license_key, device_id |-> options.device_id]

\* the Authorization header LycentoClient::post attaches
AuthHeader(key) == IF key = None THEN {} ELSE {<<"Authorization", "Bearer " \o key[1]>>}

\* LycentoClient::post, up to send(): the request it builds.  RequestBuilder::json
\* sets the body and the Content-Type header.
post_request(url_base, key, endpoint, payload) ==
  [method |-> "POST",
   url |-> <<url_base, endpoint>>,
   query |-> <<>>,
   headers |-> {<<"Content-Type", "application/json">>} \cup AuthHeader(key),
   body |-> Some(payload)]

\* LycentoClient::get_info, up to send(): the request it builds
get_info_request(url_base, key, license_key) ==
  [method |-> "GET",
   url |-> <<url_base, "/api/v1/licenses/info">>,
   query |-> << <<"license_key", license_key>> >>,
   headers |-> {},
   body |-> None]

\* str::trim_end_matches('/')
RECURSIVE trim_end_slashes(_)
trim_end_slashes(s) ==
  IF s # <<>> /\ s[Len(s)] = "/" THEN trim_end_slashes(SubSeq(s, 1, Len(s) - 1)) ELSE s

\* LycentoClient::new: the client's fields (the reqwest Client apart)
LycentoClient_new(config) ==
  [base_url |-> trim_end_slashes(config.base_url), api_key |-> config.api_key]

ActivateOps == {"activate", "activate_license"}

ValidateOps == {"validate", "validate_license", "is_valid"}

DeactivateOps == {"deactivate", "deactivate_current"}

InfoOps == {"get_info", "get_active_device_count", "can_activate"}

HttpOps == ActivateOps \cup ValidateOps \cup DeactivateOps \cup InfoOps

PostOps == ActivateOps \cup ValidateOps \cup DeactivateOps

\* whether the operation reads CACHED_DEVICE_ID first: activate through
\* get_device_info, validate when no device_id was given, deactivate_current,
\* get_device_id and get_device_info always
NeedsDeviceId(o, p) ==
  \/ o \in ActivateOps
  \/ o = "validate" /\ p.device_id = None
  \/ o \in {"validate_license", "is_valid", "deactivate_current", "get_device_id",
            "get_device_info"}

\* the request operation o with options p sends; e is what sys_info reports
\* and id what get_device_id returned (None when it was not called)
RequestOf(url_base, key, o, p, e, id) ==
  CASE o = "activate" ->
         post_request(url_base, key, "/api/v1/licenses/activate",
                      activate_payload(p, get_device_info(e, id[1])))
    [] o = "activate_license" ->
         post_request(url_base, key, "/api/v1/licenses/activate",
                      activate_payload(ActivateOptions_new(p.license_key),
                                       get_device_info(e, id[1])))
    [] o = "validate" ->
         post_request(url_base, key, "/api/v1/licenses/validate",
                      validate_payload(p, IF p.device_id = None THEN id[1]
                                          ELSE p.device_id[1]))
    [] o \in {"validate_license", "is_valid"} ->
         post_request(url_base, key, "/api/v1/licenses/validate",
                      validate_payload(ValidateOptions_new(p.license_key), id[1]))
    [] o = "deactivate" ->
         post_request(url_base, key, "/api/v1/licenses/deactivate", deactivate_payload(p))
    [] o = "deactivate_current" ->
         post_request(url_base, key, "/api/v1/licenses/deactivate",
                      deactivate_payload(DeactivateOptions_new(p.license_key, id[1])))
    [] o \in InfoOps ->
         get_info_request(url_base, key, p.license_key)

\* what operation o returns when its exchange gave back x
OutcomeOf(o, x) ==
  CASE o \in ActivateOps -> activate(x)
    [] o \in {"validate", "validate_license"} -> validate(x)
    [] o = "is_valid" -> is_valid(x)
    [] o \in DeactivateOps -> deactivate(x)
    [] o = "get_info" -> get_info(x)
    [] o = "get_active_device_count" -> get_active_device_count(x)
    [] o = "can_activate" -> can_activate(x)

---------------------------------------------------------------------------
(* Bounds and the inputs drawn from them *)

\* the callers that use one client concurrently
NumCallers == 2

\* max_devices and active_devices of a license range over 0..MaxDevices
MaxDevices == 2

Callers == 1..NumCallers

T_host1 == <<"h","o","s","t","1">>

T_Linux == <<"L","i","n","u","x">>

T_5_15 == <<"5",".","1","5">>

T_Darwin == <<"D","a","r","w","i","n">>

T_22_1 == <<"2","2",".","1">>

T_dev_A == <<"d","e","v","-","A">>

T_laptop == <<"l","a","p","t","o","p">>

\* what sys_info reports to a build whose target_os is not "windows"
Sys(hostname, os_type, os_release) ==
  [hostname |-> hostname, os_type |-> os_type, os_release |-> os_release,
   windows |-> FALSE, info |-> None]

\* what sys_info may report: hostname, OS type and OS release may all change,
\* and the hostname may become unavailable
OsStates ==
  {Sys(Some(T_host1), Some(T_Linux), Some(T_5_15)),
   Sys(None, Some(T_Darwin), Some(T_22_1))}

T_Android_12 == <<"A","n","d","r","o","i","d"," ","1","2">>

T_LINUX == <<"L","I","N","U","X">>

T_ANDROID_12 == <<"A","N","D","R","O","I","D"," ","1","2">>

T_Windows == <<"W","i","n","d","o","w","s">>

T_10 == <<"1","0">>

T_macOS == <<"m","a","c","O","S">>

T_iOS == <<"i","O","S">>

T_Android == <<"A","n","d","r","o","i","d">>

T_FreeBSD == <<"F","r","e","e","B","S","D">>

T_Windows_Linux == <<"W","i","n","d","o","w","s","-","L","i","n","u","x">>

T_Darwin_Linux == <<"D","a","r","w","i","n","-","L","i","n","u","x">>

T_Linux_iOS == <<"L","i","n","u","x","-","i","O","S">>

T_iOS_Android == <<"i","O","S","-","A","n","d","r","o","i","d">>

T_bob == <<"b","o","b">>

\* what sys_info reports to a build whose target_os is "windows"
Win(hostname, info) ==
  [hostname |-> hostname, os_type |-> Some(T_Windows), os_release |-> Some(T_10),
   windows |-> TRUE, info |-> info]

\* the machines the device functions are called on: every branch of
\* get_platform, OS types that name two platforms, values that are
\* unavailable or empty, and Windows builds with and without a user name
DeviceOsStates ==
  OsStates \cup
  {Sys(Some(T_host1), Some(T_Linux), Some(T_Android_12)),
   Sys(Some(<<>>), Some(T_Linux), Some(T_5_15)),
   Sys(None, Some(T_Linux), Some(T_5_15)),
   Sys(Some(T_host1), Some(T_Linux), None),
   Sys(Some(T_host1), Some(T_LINUX), Some(T_ANDROID_12)),
   Sys(Some(T_host1), Some(T_macOS), Some(T_22_1)),
   Sys(Some(T_host1), Some(T_iOS), Some(T_22_1)),
   Sys(Some(T_host1), Some(T_Android), Some(T_Android_12)),
   Sys(Some(T_host1), Some(T_FreeBSD), Some(T_Android_12)),
   Sys(Some(T_host1), None, None),
   Sys(Some(T_host1), Some(<<>>), Some(<<>>)),
   Sys(Some(T_host1), Some(T_Windows_Linux), Some(T_Android_12)),
   Sys(Some(T_host1), Some(T_Darwin_Linux), Some(T_Android_12)),
   Sys(Some(T_host1), Some(T_Linux_iOS), Some(T_5_15)),
   Sys(Some(T_host1), Some(T_iOS_Android), Some(T_5_15)),
   Sys(None, None, None),
   Win(Some(T_host1), None),
   Win(Some(T_host1), Some([username |-> None])),
   Win(Some(T_host1), Some([username |-> Some(T_bob)])),
   Win(Some(T_host1), Some([username |-> Some(S_Unknown)])),
   Win(None, Some([username |-> Some(T_bob)]))}

\* generate_device_id on each of them, evaluated once
GeneratedIdPairs == {<<e, generate_device_id(e)>> : e \in DeviceOsStates}

GeneratedIds(e) == (CHOOSE p \in GeneratedIdPairs : p[1] = e)[2]

\* the configurations a client is constructed from
Configs ==
  {[base_url |-> <<"h","/","/">>, api_key |-> None],
   [base_url |-> <<"h">>, api_key |-> Some("secret")]}

\* an optional member of a JSON object
Member(k, o) == IF o = None THEN <<>> ELSE (k :> o[1])

LicenseJ(max_devices, active_devices) ==
  JObj([key |-> JStr("KEY-1"), status |-> JStr("active"), type |-> JStr("perpetual"),
        expiresAt |-> JNull]
       @@ Member("maxDevices", max_devices) @@ Member("activeDevices", active_devices))

\* an activation with the members of ActivationDetails, DeactivationDetails
\* and ActivationRecord
ActivationJ ==
  JObj([id |-> JNum(1), deviceId |-> JStr("dev-A"), deviceName |-> JStr("laptop"),
        devicePlatform |-> JStr("linux"), activatedAt |-> JStr("2024-01-01"),
        deactivatedAt |-> JStr("2024-02-01"), isActive |-> JBool(TRUE)])

\* the members of a body every operation's success shape can be read from
\* (serde ignores the members a shape does not name), success apart
Payload(valid, license) ==
  Member("valid", valid) @@ Member("license", license)
  @@ [message |-> JStr("done"), activation |-> ActivationJ,
      activations |-> JArr(<<ActivationJ>>)]

FullPayload == Payload(Some(JBool(TRUE)), Some(LicenseJ(Some(JNum(2)), Some(JNum(1)))))

ErrorMembers == {None, Some(JStr("device limit reached")), Some(JNum(7))}

SuccessMembers == {None, Some(JBool(TRUE)), Some(JBool(FALSE)), Some(JStr("false"))}

\* bodies with and without the embedded failure signals
SignalBodies ==
  {JObj(Member("error", e) @@ Member("success", s) @@ pl) :
     e \in ErrorMembers, s \in SuccessMembers, pl \in {<<>>, FullPayload}}

MessageBodies ==
  {JObj([message |-> JStr("try later")]),
   JObj([error |-> JNull, message |-> JStr("try later")]),
   JObj([message |-> JNum(1)]),
   JObj([error |-> JStr("missing field license")])}

\* well-formed bodies over the device counts
LicenseBodies ==
  {JObj([success |-> JBool(TRUE)]
        @@ Payload(Some(JBool(FALSE)), Some(LicenseJ(Some(JNum(m)), a)))) :
     m \in 0..MaxDevices,
     a \in {None, Some(JNull)} \cup {Some(JNum(n)) : n \in 0..MaxDevices}}

\* bodies that are not JSON, not an object, or not of the success shape
MalformedBodies ==
  {NotJson, JStr("OK"), JNull,
   JArr(<<JBool(TRUE), LicenseJ(Some(JNum(2)), None), ActivationJ>>),
   JArr(<<JBool(FALSE), LicenseJ(Some(JNum(2)), None), ActivationJ>>),
   JObj([success |-> JBool(TRUE)] @@ Payload(Some(JBool(TRUE)), None)),
   JObj([success |-> JBool(TRUE)]
        @@ Payload(Some(JBool(TRUE)), Some(LicenseJ(None, Some(JNum(1)))))),
   JObj([success |-> JBool(TRUE)]
        @@ Payload(Some(JBool(TRUE)), Some(LicenseJ(Some(JStr("2")), Some(JNum(1)))))),
   JObj([success |-> JBool(TRUE)]
        @@ Payload(Some(JBool(TRUE)), Some(LicenseJ(Some(JNum(-1)), Some(JNum(1)))))),
   JObj([success |-> JBool(TRUE)]
        @@ Payload(Some(JStr("yes")), Some(LicenseJ(Some(JNum(2)), Some(JNum(1)))))),
   JObj([success |-> JBool(TRUE)]
        @@ Payload(None, Some(LicenseJ(Some(JNum(2)), Some(JNum(1))))))}

Bodies == SignalBodies \cup MessageBodies \cup LicenseBodies \cup MalformedBodies

Statuses == {200, 201, 404, 422, 429, 500}

\* the reqwest::Errors send() may end in: connect, timeout, request, and one
\* that is none of them (a redirect loop)
TransportErrors ==
  {[is_connect |-> TRUE, is_timeout |-> FALSE, is_request |-> FALSE,
    text |-> "error trying to connect"],
   [is_connect |-> FALSE, is_timeout |-> TRUE, is_request |-> FALSE,
    text |-> "operation timed out"],
   [is_connect |-> FALSE, is_timeout |-> FALSE, is_request |-> TRUE,
    text |-> "error sending request"],
   [is_connect |-> FALSE, is_timeout |-> FALSE, is_request |-> FALSE,
    text |-> "error following redirect"]}

Exchanges ==
  {Http(st, b) : st \in Statuses, b \in Bodies} \cup {Transport(e) : e \in TransportErrors}

Call(o, p) == [op |-> o, opts |-> p]

\* the invocations of a caller that uses the client alone
Invocations ==
  {Call("activate", ActivateOptions_new("KEY-1")),
   Call("activate", Activate_with_device_id(ActivateOptions_new("KEY-1"), T_dev_A)),
   Call("activate",
        Activate_with_ip_address(
          Activate_with_platform(
            Activate_with_device_name(
              Activate_with_device_id(ActivateOptions_new("KEY-1"), T_dev_A),
              T_laptop),
            "Ios"),
          "10.0.0.1")),
   Call("activate_license", [license_key |-> "KEY-1"]),
   Call("validate", ValidateOptions_new("KEY-1")),
   Call("validate", Validate_with_device_id(ValidateOptions_new("KEY-1"), T_dev_A)),
   Call("validate_license", [license_key |-> "KEY-1"]),
   Call("is_valid", [license_key |-> "KEY-1"]),
   Call("deactivate", DeactivateOptions_new("KEY-1", T_dev_A)),
   Call("deactivate_current", [license_key |-> "KEY-1"]),
   Call("get_info", [license_key |-> "KEY-1"]),
   Call("get_active_device_count", [license_key |-> "KEY-1"]),
   Call("can_activate", [license_key |-> "KEY-1"]),
   Call("get_device_id", <<>>)}

---------------------------------------------------------------------------
(* The state machine *)

Uninit == [state |-> "uninit", owner |-> 0, value |-> <<>>]

NoExchange == [kind |-> "none"]

NoResult == [none |-> TRUE]

Init ==
  /\ \E config \in Configs :
       /\ base_url = LycentoClient_new(config).base_url
       /\ api_key = LycentoClient_new(config).api_key
  /\ os \in OsStates
  /\ cell = Uninit
  /\ pc = [c \in Callers |-> "idle"]
  /\ op = [c \in Callers |-> "none"]
  /\ opts = [c \in Callers |-> <<>>]
  /\ dev = [c \in Callers |-> None]
  /\ reqs = [c \in Callers |-> <<>>]
  /\ resp = [c \in Callers |-> NoExchange]
  /\ result = [c \in Callers |-> NoResult]

\* caller c invokes operation o with options p
Invoke(c, o, p) ==
  /\ pc[c] = "idle"
  /\ pc' = [pc EXCEPT ![c] = "start"]
  /\ op' = [op EXCEPT ![c] = o]
  /\ opts' = [opts EXCEPT ![c] = p]
  /\ UNCHANGED <<base_url, api_key, os, cell, dev, reqs, resp, result>>

\* Lazy::force on CACHED_DEVICE_ID, first caller: c starts the initializer
LazyBegin(c) ==
  /\ pc[c] = "start"
  /\ NeedsDeviceId(op[c], opts[c])
  /\ cell.state = "uninit"
  /\ cell' = [state |-> "running", owner |-> c, value |-> <<>>]
  /\ pc' = [pc EXCEPT ![c] = "init"]
  /\ UNCHANGED <<base_url, api_key, os, op, opts, dev, reqs, resp, result>>

\* the initializer generate_device_id returns: the cell holds its value
LazyFinish(c) ==
  /\ pc[c] = "init"
  /\ cell.state = "running" /\ cell.owner = c
  /\ cell' = [state |-> "done", owner |-> c, value |-> GeneratedIds(os)]
  /\ dev' = [dev EXCEPT ![c] = Some(GeneratedIds(os))]
  /\ pc' = [pc EXCEPT ![c] = "ready"]
  /\ UNCHANGED <<base_url, api_key, os, op, opts, reqs, resp, result>>

\* get_device_id deriving the id anew on every call
LazyGetFresh(c) ==
  /\ pc[c] = "start"
  /\ NeedsDeviceId(op[c], opts[c])
  /\ cell.state = "done"
  /\ dev' = [dev EXCEPT ![c] = Some(GeneratedIds(os))]
  /\ pc' = [pc EXCEPT ![c] = "ready"]
  /\ UNCHANGED <<base_url, api_key, os, cell, op, opts, reqs, resp, result>>

\* get_device_id on an initialized cell: a clone of its value.  A caller
\* that finds the initializer running waits for it.
LazyGet(c) ==
  /\ pc[c] = "start"
  /\ NeedsDeviceId(op[c], opts[c])
  /\ cell.state = "done"
  /\ dev' = [dev EXCEPT ![c] = Some(cell.value)]
  /\ pc' = [pc EXCEPT ![c] = "ready"]
  /\ UNCHANGED <<base_url, api_key, os, cell, op, opts, reqs, resp, result>>

\* get_device_id returns to its caller
ReturnDeviceId(c) ==
  /\ pc[c] = "ready"
  /\ op[c] = "get_device_id"
  /\ result' = [result EXCEPT ![c] = Plain(dev[c][1])]
  /\ pc' = [pc EXCEPT ![c] = "done"]
  /\ UNCHANGED <<base_url, api_key, os, cell, op, opts, dev, reqs, resp>>

\* generate_device_id called directly: the id of what sys_info reports now
GenerateDeviceId(c) ==
  /\ pc[c] = "start"
  /\ op[c] = "generate_device_id"
  /\ result' = [result EXCEPT ![c] = Plain(GeneratedIds(os))]
  /\ pc' = [pc EXCEPT ![c] = "done"]
  /\ UNCHANGED <<base_url, api_key, os, cell, op, opts, dev, reqs, resp>>

\* get_platform called directly
GetPlatform(c) ==
  /\ pc[c] = "start"
  /\ op[c] = "get_platform"
  /\ result' = [result EXCEPT ![c] = Plain(get_platform(os))]
  /\ pc' = [pc EXCEPT ![c] = "done"]
  /\ UNCHANGED <<base_url, api_key, os, cell, op, opts, dev, reqs, resp>>

\* get_device_info called directly, once its call of get_device_id has returned
GetDeviceInfo(c) ==
  /\ pc[c] = "ready"
  /\ op[c] = "get_device_info"
  /\ result' = [result EXCEPT ![c] = Plain(get_device_info(os, dev[c][1]))]
  /\ pc' = [pc EXCEPT ![c] = "done"]
  /\ UNCHANGED <<base_url, api_key, os, cell, op, opts, dev, reqs, resp>>

\* the operation builds its request and sends it
Send(c) ==
  /\ op[c] \in HttpOps
  /\ \/ pc[c] = "ready"
     \/ pc[c] = "start" /\ ~NeedsDeviceId(op[c], opts[c])
  /\ reqs' = [reqs EXCEPT ![c] =
                Append(@, RequestOf(base_url, api_key, op[c], opts[c], os, dev[c]))]
  /\ pc' = [pc EXCEPT ![c] = "sent"]
  /\ UNCHANGED <<base_url, api_key, os, cell, op, opts, dev, resp, result>>

\* Receive with one retry after a 429
ReceiveRetry(c, x) ==
  /\ pc[c] = "sent"
  /\ IF x.kind = "http" /\ x.status = 429 /\ Len(reqs[c]) < 2
       THEN /\ reqs' = [reqs EXCEPT ![c] = Append(@, @[1])]
            /\ UNCHANGED <<pc, resp, result>>
       ELSE /\ resp' = [resp EXCEPT ![c] = x]
            /\ result' = [result EXCEPT ![c] = OutcomeOf(op[c], x)]
            /\ pc' = [pc EXCEPT ![c] = "done"]
            /\ UNCHANGED reqs
  /\ UNCHANGED <<base_url, api_key, os, cell, op, opts, dev>>

\* Receive with the response kept in a field of the client that the callers
\* share: the result is read from the exchange another caller ended last
ReceiveShared(c, x) ==
  /\ pc[c] = "sent"
  /\ resp' = [resp EXCEPT ![c] = x]
  /\ LET others == {d \in Callers \ {c} : resp[d] # NoExchange}
         seen == IF others = {} THEN x ELSE resp[CHOOSE d \in others : TRUE]
     IN  result' = [result EXCEPT ![c] = OutcomeOf(op[c], seen)]
  /\ pc' = [pc EXCEPT ![c] = "done"]
  /\ UNCHANGED <<base_url, api_key, os, cell, op, opts, dev, reqs>>

\* the exchange of c's request ends in x and the operation returns
Receive(c, x) ==
  /\ pc[c] = "sent"
  /\ resp' = [resp EXCEPT ![c] = x]
  /\ result' = [result EXCEPT ![c] = OutcomeOf(op[c], x)]
  /\ pc' = [pc EXCEPT ![c] = "done"]
  /\ UNCHANGED <<base_url, api_key, os, cell, op, opts, dev, reqs>>

\* the caller has its result and may invoke again
Return(c) ==
  /\ pc[c] = "done"
  /\ pc' = [pc EXCEPT ![c] = "idle"]
  /\ op' = [op EXCEPT ![c] = "none"]
  /\ opts' = [opts EXCEPT ![c] = <<>>]
  /\ dev' = [dev EXCEPT ![c] = None]
  /\ reqs' = [reqs EXCEPT ![c] = <<>>]
  /\ resp' = [resp EXCEPT ![c] = NoExchange]
  /\ result' = [result EXCEPT ![c] = NoResult]
  /\ UNCHANGED <<base_url, api_key, os, cell>>

\* what sys_info reports changes; the build stays the one it is
OsChange(e) ==
  /\ e # os
  /\ e.windows = os.windows
  /\ os' = e
  /\ UNCHANGED <<base_url, api_key, cell, pc, op, opts, dev, reqs, resp, result>>

\* one caller uses the client, with every invocation and every exchange
Next ==
  \/ \E i \in Invocations : Invoke(1, i.op, i.opts)
  \/ LazyBegin(1)
  \/ LazyFinish(1)
  \/ LazyGet(1)
  \/ ReturnDeviceId(1)
  \/ Send(1)
  \/ \E x \in Exchanges : Receive(1, x)
  \/ Return(1)
  \/ \E e \in OsStates : OsChange(e)

Spec == Init /\ [][Next]_vars

\* the invocations of callers that use the client concurrently
ConcInvocations ==
  {Call("activate_license", [license_key |-> "KEY-1"]),
   Call("can_activate", [license_key |-> "KEY-2"]),
   Call("get_device_id", <<>>),
   Call("get_platform", <<>>)}

\* and the exchanges their requests end in
ConcExchanges ==
  {Http(200, JObj([success |-> JBool(TRUE)] @@ FullPayload)),
   Http(200, JObj([success |-> JBool(FALSE), error |-> JStr("device limit reached")])),
   Http(429, JObj(<<>>)),
   Transport([is_connect |-> FALSE, is_timeout |-> TRUE, is_request |-> FALSE,
              text |-> "operation timed out"])}

\* several callers use the client at once; their steps interleave
NextConc ==
  \/ \E c \in Callers, i \in ConcInvocations : Invoke(c, i.op, i.opts)
  \/ \E c \in Callers : LazyBegin(c)
  \/ \E c \in Callers : LazyFinish(c)
  \/ \E c \in Callers : LazyGet(c)
  \/ \E c \in Callers : ReturnDeviceId(c)
  \/ \E c \in Callers : GetPlatform(c)
  \/ \E c \in Callers : Send(c)
  \/ \E c \in Callers, x \in ConcExchanges : Receive(c, x)
  \/ \E c \in Callers : Return(c)
  \/ \E e \in OsStates : OsChange(e)

SpecConc == Init /\ [][NextConc]_vars

\* the calls of the functions of device.rs
DeviceInvocations ==
  {Call("get_device_id", <<>>),
   Call("generate_device_id", <<>>),
   Call("get_platform", <<>>),
   Call("get_device_info", <<>>)}

\* as Init, on any of the machines
InitDevice ==
  /\ \E config \in Configs :
       /\ base_url = LycentoClient_new(config).base_url
       /\ api_key = LycentoClient_new(config).api_key
  /\ os \in DeviceOsStates
  /\ cell = Uninit
  /\ pc = [c \in Callers |-> "idle"]
  /\ op = [c \in Callers |-> "none"]
  /\ opts = [c \in Callers |-> <<>>]
  /\ dev = [c \in Callers |-> None]
  /\ reqs = [c \in Callers |-> <<>>]
  /\ resp = [c \in Callers |-> NoExchange]
  /\ result = [c \in Callers |-> NoResult]

\* one caller uses the functions of device.rs while what sys_info reports
\* changes
NextDevice ==
  \/ \E i \in DeviceInvocations : Invoke(1, i.op, i.opts)
  \/ LazyBegin(1)
  \/ LazyFinish(1)
  \/ LazyGet(1)
  \/ ReturnDeviceId(1)
  \/ GenerateDeviceId(1)
  \/ GetPlatform(1)
  \/ GetDeviceInfo(1)
  \/ Return(1)
  \/ \E e \in DeviceOsStates : OsChange(e)

SpecDevice == InitDevice /\ [][NextDevice]_vars

---------------------------------------------------------------------------
(* What the properties below speak of, read off the state and the JSON      *)
(* body rather than through the client's own helpers.                       *)

Done(c) == pc[c] = "done"

\* the exchange ended in a response with a 2xx status
Is2xx(x) == x.kind = "http" /\ x.status \in 200..299

\* the body has a top-level `error` member that is a string
HasErrorString(b) == b.t = "obj" /\ "error" \in DOMAIN b.o /\ b.o["error"].t = "str"

\* the body has a top-level `success` member that is the boolean false
HasSuccessFalse(b) ==
  b.t = "obj" /\ "success" \in DOMAIN b.o /\ b.o["success"] = [t |-> "bool", b |-> FALSE]

\* the body has the members of every success shape
HasPayload(b) == b.t = "obj" /\ {"valid", "license", "activation", "activations"} \subseteq DOMAIN b.o

\* the operations that return a Result
ResultOps == HttpOps \ {"is_valid"}

\* the error type operation o returns
ErrorTypeOf(o) ==
  CASE o \in ActivateOps -> "ActivationError"
    [] o \in ValidateOps -> "ValidationError"
    [] o \in DeactivateOps -> "DeactivationError"
    [] o \in InfoOps -> "LycentoError"

Failure(o, msg) == [ok |-> FALSE, ty |-> ErrorTypeOf(o), msg |-> msg]

RateLimitText == "Rate limit exceeded - please try again later"

---------------------------------------------------------------------------
(* C1: in activate, a 2xx response whose JSON body has a top-level `error`  *)
(* string or a top-level `success` equal to false gives an ActivationError  *)
(* whose message is the `error` text, or "Activation failed" when there is  *)
(* no `error` string, and never a successful ActivateResponse.              *)
C1_ActivateEmbeddedFailure ==
  \A c \in Callers :
    (/\ Done(c) /\ op[c] \in ActivateOps /\ Is2xx(resp[c])
     /\ HasErrorString(resp[c].body) \/ HasSuccessFalse(resp[c].body))
    => result[c] = [ok |-> FALSE, ty |-> "ActivationError",
                    msg |-> IF HasErrorString(resp[c].body)
                              THEN resp[c].body.o["error"].s
                              ELSE "Activation failed"]

\* activate got a 2xx body of the success shape but with success false and
\* no error string, and returned "Activation failed"
C1_Witness ==
  \E c \in Callers :
    /\ Done(c) /\ op[c] = "activate" /\ Is2xx(resp[c])
    /\ HasSuccessFalse(resp[c].body) /\ ~HasErrorString(resp[c].body)
    /\ HasPayload(resp[c].body)
    /\ result[c] = [ok |-> FALSE, ty |-> "ActivationError", msg |-> "Activation failed"]

(* C2: for each of activate, validate, deactivate and get_info, a 2xx       *)
(* response whose JSON body has a top-level `error` string or a top-level   *)
(* `success` equal to false gives an error, never a success value.          *)
C2_UniformEmbeddedFailure ==
  \A c \in Callers :
    (/\ Done(c) /\ op[c] \in {"activate", "validate", "deactivate", "get_info"}
     /\ Is2xx(resp[c])
     /\ HasErrorString(resp[c].body) \/ HasSuccessFalse(resp[c].body))
    => result[c].ok = FALSE

(* C3, as claimed: for every operation a 404 gives "License not found" and  *)
(* a 429 the rate-limit message whatever the body, and a 422 gives the      *)
(* body's `error` string; the message is the same in the operation's own    *)
(* error type.                                                              *)
C3_StatusMappingAnyBody ==
  \A c \in Callers :
    (Done(c) /\ op[c] \in ResultOps /\ resp[c].kind = "http")
    => /\ resp[c].status = 404 => result[c] = Failure(op[c], "License not found")
       /\ resp[c].status = 429 => result[c] = Failure(op[c], RateLimitText)
       /\ (resp[c].status = 422 /\ HasErrorString(resp[c].body))
            => result[c] = Failure(op[c], resp[c].body.o["error"].s)

(* C3, amended: the same for every response whose body parses as JSON.      *)
C3_StatusMappingJsonBody ==
  \A c \in Callers :
    (Done(c) /\ op[c] \in ResultOps /\ resp[c].kind = "http" /\ resp[c].body.t # "invalid")
    => /\ resp[c].status = 404 => result[c] = Failure(op[c], "License not found")
       /\ resp[c].status = 429 => result[c] = Failure(op[c], RateLimitText)
       /\ (resp[c].status = 422 /\ HasErrorString(resp[c].body))
            => result[c] = Failure(op[c], resp[c].body.o["error"].s)

\* activate got a 404 whose body carries an `error` string of its own and
\* returned an ActivationError saying "License not found"
C3_Witness ==
  \E c \in Callers :
    /\ Done(c) /\ op[c] = "activate" /\ resp[c].kind = "http" /\ resp[c].status = 404
    /\ HasErrorString(resp[c].body)
    /\ result[c] = [ok |-> FALSE, ty |-> "ActivationError", msg |-> "License not found"]

(* C4: for every operation a response whose body does not parse as JSON     *)
(* gives an error whatever the status, 2xx, 404, 422 and 429 included, and  *)
(* the error is the parse failure, not the status's message.                *)
C4_UnparsableBodyFails ==
  \A c \in Callers :
    (Done(c) /\ op[c] \in ResultOps /\ resp[c].kind = "http" /\ resp[c].body.t = "invalid")
    => result[c] = Failure(op[c], "error decoding response body")

\* activate got a 404 with a body that is not JSON and returned the parse
\* failure
C4_Witness ==
  \E c \in Callers :
    /\ Done(c) /\ op[c] = "activate" /\ resp[c].kind = "http" /\ resp[c].status = 404
    /\ resp[c].body.t = "invalid"
    /\ ~result[c].ok /\ result[c].msg # "License not found"

(* C5: is_valid returns a boolean and never an error: false for every       *)
(* failure of the validate call (transport failure, unparsable body, a      *)
(* non-2xx status, an embedded error, a malformed success body) and the     *)
(* response's `valid` flag when validate succeeds.                          *)
C5_IsValidNeverFails ==
  \A c \in Callers :
    (Done(c) /\ op[c] = "is_valid")
    => /\ result[c] \in {[plain |-> TRUE], [plain |-> FALSE]}
       /\ (\/ ~Is2xx(resp[c])
           \/ resp[c].body.t = "invalid"
           \/ HasErrorString(resp[c].body)) => result[c] = [plain |-> FALSE]
       /\ IF validate(resp[c]).ok
            THEN result[c] = [plain |-> validate(resp[c]).val.valid]
            ELSE result[c] = [plain |-> FALSE]

\* is_valid got a 404 and returned false
C5_Witness ==
  \E c \in Callers :
    /\ Done(c) /\ op[c] = "is_valid" /\ resp[c].kind = "http" /\ resp[c].status = 404
    /\ result[c] = [plain |-> FALSE]

\* the device counts of a body whose license get_info could read
MaxDevicesOf(b) == b.o["license"].o["maxDevices"].n

ActiveDevicesOf(b) ==
  LET l == b.o["license"].o
  IN  IF "activeDevices" \in DOMAIN l /\ l["activeDevices"].t = "num"
        THEN l["activeDevices"].n ELSE 0

(* C6: can_activate returns Ok(active_devices < max_devices) of the Info    *)
(* response, an absent active_devices counting as 0, and when get_info      *)
(* fails it returns get_info's error and no boolean.                        *)
C6_CanActivate ==
  \A c \in Callers :
    (Done(c) /\ op[c] = "can_activate")
    => IF get_info(resp[c]).ok
         THEN result[c] = [ok |-> TRUE,
                           val |-> ActiveDevicesOf(resp[c].body) < MaxDevicesOf(resp[c].body)]
         ELSE /\ result[c] = get_info(resp[c])
              /\ result[c].ok = FALSE /\ result[c].ty = "LycentoError"

\* can_activate read active_devices = max_devices = 2 and returned Ok(false)
C6_Witness ==
  \E c \in Callers :
    /\ Done(c) /\ op[c] = "can_activate" /\ Is2xx(resp[c]) /\ get_info(resp[c]).ok
    /\ ActiveDevicesOf(resp[c].body) = 2 /\ MaxDevicesOf(resp[c].body) = 2
    /\ result[c] = [ok |-> TRUE, val |-> FALSE]

(* C7: with an API key configured every request sent, the POSTs of          *)
(* activate, validate and deactivate and the GET of get_info, carries the   *)
(* header Authorization: Bearer <key>; with none configured no request      *)
(* carries an Authorization header.                                         *)
C7_AuthorizationOnEveryRequest ==
  \A c \in Callers : \A i \in 1..Len(reqs[c]) :
    IF api_key # None
      THEN <<"Authorization", "Bearer " \o api_key[1]>> \in reqs[c][i].headers
      ELSE \A h \in reqs[c][i].headers : h[1] # "Authorization"

(* C8: an invocation of activate, validate, deactivate or get_info sends    *)
(* exactly one HTTP request: whatever the exchange ends in, nothing is sent *)
(* again, and the invocation returns the outcome of that one exchange.      *)
C8_OneRequestPerInvocation ==
  \A c \in Callers :
    /\ Len(reqs[c]) <= 1
    /\ (pc[c] \in {"sent", "done"} /\ op[c] \in HttpOps) => Len(reqs[c]) = 1
    /\ (Done(c) /\ op[c] \in HttpOps)
         => /\ resp[c] # NoExchange
            /\ result[c] # NoResult
            /\ result[c] = OutcomeOf(op[c], resp[c])
    /\ (pc[c] = "sent") => (resp[c] = NoExchange /\ result[c] = NoResult)

\* validate got a 429, returned the rate-limit error and had sent one request
C8_Witness ==
  \E c \in Callers :
    /\ Done(c) /\ op[c] = "validate" /\ resp[c].kind = "http" /\ resp[c].status = 429
    /\ Len(reqs[c]) = 1
    /\ result[c] = [ok |-> FALSE, ty |-> "ValidationError", msg |-> RateLimitText]

\* the license key a request carries
LicenseKeyOf(r) == IF r.method = "GET" THEN r.query[1][2] ELSE r.body[1].license_key

(* C9: under concurrent use, with requests and responses interleaving in    *)
(* any order, the result of each invocation is the one its own operation    *)
(* and its own response determine, its request is built from its own        *)
(* options, no step of one caller changes what another caller holds, and    *)
(* no operation changes the client's base URL or API key.                   *)
C9_ConcurrentCallsIndependent ==
  /\ [](\A c \in Callers :
          /\ (Done(c) /\ op[c] \in HttpOps) => result[c] = OutcomeOf(op[c], resp[c])
          /\ \A i \in 1..Len(reqs[c]) :
               /\ reqs[c][i].url[1] = base_url
               /\ LicenseKeyOf(reqs[c][i]) = opts[c].license_key)
  /\ [][/\ base_url' = base_url
        /\ api_key' = api_key
        /\ \A c \in Callers :
             pc'[c] = pc[c] =>
               /\ op'[c] = op[c] /\ opts'[c] = opts[c] /\ dev'[c] = dev[c]
               /\ reqs'[c] = reqs[c] /\ resp'[c] = resp[c] /\ result'[c] = result[c]]_vars

\* two callers hold the results of different operations on different
\* exchanges at the same time, one a failure and one a success
C9_Witness ==
  \E c, d \in Callers :
    /\ c # d /\ Done(c) /\ Done(d)
    /\ op[c] = "activate_license" /\ op[d] = "can_activate"
    /\ resp[c].kind = "http" /\ HasSuccessFalse(resp[c].body)
    /\ resp[d].kind = "http" /\ resp[d].status = 200
    /\ resp[c] # resp[d]
    /\ ~result[c].ok /\ result[c].msg = "device limit reached"
    /\ result[d] = [ok |-> TRUE, val |-> TRUE]
    /\ LicenseKeyOf(reqs[c][1]) = "KEY-1" /\ LicenseKeyOf(reqs[d][1]) = "KEY-2"

(* C10: the device id is derived at most once per process: the initializer  *)
(* starts only on an empty cell, the cell's value never changes once set,   *)
(* and every call of get_device_id, first calls racing from several         *)
(* threads included, returns that value, whatever hostname, OS type and OS  *)
(* release have become since.                                               *)
C10_DeviceIdDerivedOnce ==
  /\ [](\A c \in Callers :
          /\ dev[c] # None => (cell.state = "done" /\ dev[c] = <<cell.value>>)
          /\ (Done(c) /\ op[c] = "get_device_id") => result[c] = [plain |-> cell.value])
  /\ [][/\ cell.state = "done" => cell' = cell
        /\ (cell'.state = "running" /\ cell.state # "running") => cell.state = "uninit"
        /\ (cell'.state = "done" /\ cell.state # "done") => cell.state = "running"]_vars

\* two callers have the same id from get_device_id although sys_info now
\* reports values that give another id
C10_Witness ==
  \E c, d \in Callers :
    /\ c # d /\ Done(c) /\ Done(d)
    /\ op[c] = "get_device_id" /\ op[d] = "get_device_id"
    /\ result[c] = result[d]
    /\ Len(result[c].plain) = 32
    /\ result[c].plain # generate_device_id(os)

(* C11: the platform is memoized process-wide: once detected, get_platform  *)
(* returns the same Platform for the rest of the process, and so does the   *)
(* platform of every get_device_info snapshot (the one activate fills       *)
(* device_platform from), whatever the OS type and OS release have become.  *)
C11_PlatformMemoized ==
  \A c, d \in Callers :
    /\ (Done(c) /\ Done(d) /\ op[c] = "get_platform" /\ op[d] = "get_platform")
         => result[c] = result[d]
    /\ (op[c] = "activate_license" /\ op[d] = "activate_license"
        /\ reqs[c] # <<>> /\ reqs[d] # <<>>)
         => reqs[c][1].body[1].device_platform = reqs[d][1].body[1].device_platform

\* SHA-256 digests computed outside this model: the text hashed and the
\* first 32 characters of the digest in lower-case hexadecimal
KnownDigests ==
  { <<<<"h","o","s","t","1","-","L","i","n","u","x","-","5",".","1","5">>,
     <<"6","c","b","b","b","5","0","3","b","4","2","7","2","a","d","7","0","2","e","1","3","7","f","2","1","1","d","a","6","3","2","8">>>>,
   <<<<"-","D","a","r","w","i","n","-","2","2",".","1">>,
     <<"5","0","7","d","b","3","1","e","3","e","5","6","e","b","5","7","4","9","c","3","f","4","8","6","7","9","c","7","8","c","6","5">>>>,
   <<<<"h","o","s","t","1","-","L","i","n","u","x","-","A","n","d","r","o","i","d"," ","1","2">>,
     <<"1","0","5","4","3","2","e","0","a","6","7","7","8","3","1","e","0","d","c","3","c","6","f","c","8","4","4","d","a","4","b","1">>>>,
   <<<<"-","L","i","n","u","x","-","5",".","1","5">>,
     <<"4","d","3","b","7","e","3","6","4","b","2","5","e","c","8","4","4","0","d","3","9","1","9","3","a","a","f","8","0","1","e","0">>>>,
   <<<<"h","o","s","t","1","-","L","i","n","u","x","-">>,
     <<"2","f","2","1","d","0","5","e","1","1","0","1","1","c","a","3","0","8","6","5","5","4","f","2","5","0","4","0","e","2","4","3">>>>,
   <<<<"h","o","s","t","1","-","L","I","N","U","X","-","A","N","D","R","O","I","D"," ","1","2">>,
     <<"8","9","c","3","9","7","e","d","7","a","3","8","6","0","5","f","a","7","7","4","3","e","c","e","f","5","d","7","5","d","b","b">>>>,
   <<<<"h","o","s","t","1","-","m","a","c","O","S","-","2","2",".","1">>,
     <<"1","e","e","d","1","f","5","0","4","7","d","b","4","a","6","4","8","9","6","e","4","1","e","1","3","3","3","2","6","d","8","4">>>>,
   <<<<"h","o","s","t","1","-","i","O","S","-","2","2",".","1">>,
     <<"7","6","4","2","e","6","2","0","3","d","f","3","4","3","7","1","1","7","f","9","8","d","a","8","2","6","e","b","4","1","4","4">>>>,
   <<<<"h","o","s","t","1","-","A","n","d","r","o","i","d","-","A","n","d","r","o","i","d"," ","1","2">>,
     <<"b","9","5","5","c","8","8","2","e","b","a","c","1","c","c","3","7","3","d","6","a","6","5","d","6","0","3","c","5","e","2","7">>>>,
   <<<<"h","o","s","t","1","-","F","r","e","e","B","S","D","-","A","n","d","r","o","i","d"," ","1","2">>,
     <<"f","e","e","2","1","7","0","7","d","4","8","c","9","4","4","7","1","5","8","b","4","7","e","9","9","5","3","1","8","5","c","9">>>>,
   <<<<"h","o","s","t","1","-","-">>,
     <<"4","3","d","d","9","5","a","5","7","2","d","2","3","5","0","a","e","7","5","2","7","2","6","d","a","2","0","f","d","4","3","7">>>>,
   <<<<"h","o","s","t","1","-","W","i","n","d","o","w","s","-","L","i","n","u","x","-","A","n","d","r","o","i","d"," ","1","2">>,
     <<"8","a","0","5","9","f","c","f","a","c","e","4","1","e","1","9","d","8","9","4","1","3","f","5","b","9","2","a","9","c","b","d">>>>,
   <<<<"h","o","s","t","1","-","D","a","r","w","i","n","-","L","i","n","u","x","-","A","n","d","r","o","i","d"," ","1","2">>,
     <<"f","2","9","2","c","1","d","8","3","0","6","4","d","8","c","9","3","1","f","d","5","8","1","d","f","d","4","5","6","5","e","e">>>>,
   <<<<"h","o","s","t","1","-","L","i","n","u","x","-","i","O","S","-","5",".","1","5">>,
     <<"2","6","9","c","4","2","c","d","c","5","3","f","1","8","2","5","7","f","d","c","2","3","4","d","0","d","4","0","1","8","c","0">>>>,
   <<<<"h","o","s","t","1","-","i","O","S","-","A","n","d","r","o","i","d","-","5",".","1","5">>,
     <<"3","2","f","1","2","b","b","a","5","b","d","5","c","1","4","8","7","1","9","f","6","c","f","2","0","1","6","0","3","a","d","0">>>>,
   <<<<"-","-">>,
     <<"d","8","1","5","6","b","a","e","0","c","4","2","4","3","d","3","7","4","2","f","c","4","e","9","7","7","4","d","8","a","c","e">>>>,
   <<<<"h","o","s","t","1","-","W","i","n","d","o","w","s","-","1","0">>,
     <<"0","4","d","b","e","4","5","c","a","f","3","0","5","3","a","3","2","e","c","4","4","d","3","7","5","4","3","a","e","e","0","9">>>>,
   <<<<"-","W","i","n","d","o","w","s","-","1","0">>,
     <<"0","1","0","2","9","4","0","d","9","2","2","1","2","3","c","9","9","d","1","e","a","a","0","e","a","7","e","c","8","6","3","f">>>>}

\* a value sys_info could not give, read as the empty string
TextOrEmpty(o) == IF o = <<>> THEN <<>> ELSE o[1]

\* "hostname-osType-osRelease" of what sys_info reports
CombinedText(e) ==
  TextOrEmpty(e.hostname) \o <<"-">> \o TextOrEmpty(e.os_type) \o <<"-">>
  \o TextOrEmpty(e.os_release)

(* C12: generate_device_id never fails and returns exactly 32 characters    *)
(* from 0-9a-f, the first 32 hexadecimal characters of the SHA-256 digest   *)
(* of "hostname-osType-osRelease" with each unavailable value read as the   *)
(* empty string; so it is a function of that triple only.                   *)
C12_GenerateDeviceId ==
  /\ [](\A c \in Callers :
          (Done(c) /\ op[c] = "generate_device_id")
            => /\ Len(result[c].plain) = 32
               /\ \A i \in 1..32 :
                    result[c].plain[i] \in {"0","1","2","3","4","5","6","7","8","9",
                                            "a","b","c","d","e","f"})
  /\ [][\A c \in Callers :
          (op[c] = "generate_device_id" /\ pc[c] = "start" /\ pc'[c] = "done")
            => \E k \in KnownDigests :
                 k[1] = CombinedText(os) /\ result'[c] = [plain |-> k[2]]]_vars

\* generate_device_id has returned on a machine whose hostname is
\* unavailable: the id is that of "-Linux-5.15"
C12_Witness ==
  /\ Done(1) /\ op[1] = "generate_device_id"
  /\ os.hostname = <<>> /\ os.os_type = <<T_Linux>> /\ os.os_release = <<T_5_15>>
  /\ \E k \in KnownDigests :
       k[1] = <<"-">> \o T_Linux \o <<"-">> \o T_5_15 /\ result[1] = [plain |-> k[2]]

\* two characters that are the same letter, whatever their case
SameLetter(a, b) ==
  \/ a = b
  \/ \E i \in 1..26 : {a, b} = {LowerAlpha[i], UpperAlpha[i]}

\* the text sys_info gave (empty when it gave none) has word in it, in any case
Mentions(o, word) ==
  LET t == TextOrEmpty(o)
  IN  \E i \in 1..(Len(t) - Len(word) + 1) :
        \A j \in 1..Len(word) : SameLetter(t[i + j - 1], word[j])

\* the platform of a machine, by the precedence of the classification
ExpectedPlatform(e) ==
  IF Mentions(e.os_type, S_windows) THEN "Windows"
  ELSE IF Mentions(e.os_type, S_darwin) \/ Mentions(e.os_type, S_macos) THEN "Macos"
  ELSE IF Mentions(e.os_type, S_linux)
    THEN IF Mentions(e.os_release, S_android) THEN "Android" ELSE "Linux"
  ELSE IF Mentions(e.os_type, S_ios) THEN "Ios"
  ELSE IF Mentions(e.os_type, S_android) THEN "Android"
  ELSE "Unknown"

\* a call of get_platform by c returns in this step
GetPlatformReturns(c) == op[c] = "get_platform" /\ pc[c] = "start" /\ pc'[c] = "done"

(* C13: get_platform classifies by the first of these that holds, matching  *)
(* substrings of the OS type in any case: "windows" gives Windows; "darwin" *)
(* or "macos" gives Macos; "linux" gives Android when the OS release has    *)
(* "android" in it and Linux otherwise; "ios" gives Ios; "android" gives    *)
(* Android; anything else Unknown.  So Linux with release "Android 12" is   *)
(* Android, "Darwin" is Macos, and an empty or unavailable OS type Unknown. *)
C13_PlatformPrecedence ==
  [][\A c \in Callers :
       GetPlatformReturns(c) =>
         /\ result'[c] = [plain |-> ExpectedPlatform(os)]
         /\ (os.os_type = <<T_Linux>> /\ os.os_release = <<T_Android_12>>)
              => result'[c] = [plain |-> "Android"]
         /\ os.os_type = <<T_Darwin>> => result'[c] = [plain |-> "Macos"]
         /\ os.os_type \in {<<>>, << <<>> >>} => result'[c] = [plain |-> "Unknown"]]_vars

\* get_platform has returned Android on Linux with release "Android 12"
C13_Witness ==
  /\ Done(1) /\ op[1] = "get_platform"
  /\ os.os_type = <<T_Linux>> /\ os.os_release = <<T_Android_12>>
  /\ result[1] = [plain |-> "Android"]

\* the lower-case name a platform is sent under
PlatformName(p) ==
  CASE p = "Windows" -> <<"w","i","n","d","o","w","s">>
    [] p = "Macos" -> <<"m","a","c","o","s">>
    [] p = "Linux" -> <<"l","i","n","u","x">>
    [] p = "Android" -> <<"a","n","d","r","o","i","d">>
    [] p = "Ios" -> <<"i","o","s">>
    [] p = "Unknown" -> <<"u","n","k","n","o","w","n">>

\* the device name of a build that is not for Windows
ExpectedName(e, id) ==
  IF e.hostname # <<>> /\ e.hostname[1] # <<>> THEN e.hostname[1]
  ELSE <<"d","e","v","i","c","e","-">> \o SubSeq(id, 1, 8)

\* the override when the caller set one, else the default
OverrideOr(o, default) == IF o # <<>> THEN o[1] ELSE default

\* c builds and sends its request in this step
Sends(c) == pc[c] # "sent" /\ pc'[c] = "sent"

\* the JSON body of the request c sends in this step
SentBody(c) == reqs'[c][Len(reqs'[c])].body[1]

(* C14: device defaults are resolved per call when the request is built,    *)
(* and overrides win: in the activate request device_id, device_name and    *)
(* device_platform are the caller's override when set and else the cached   *)
(* device id, the device name and the platform of the machine as it is      *)
(* during the call; the validate request's device_id follows the same       *)
(* rule; license_key is passed through unchanged; and constructing the      *)
(* options and invoking does not touch the device identity.                 *)
C14_DefaultsAtRequestBuild ==
  [][\A c \in Callers :
       /\ (Sends(c) /\ op[c] = "activate")
            => /\ SentBody(c).license_key = opts[c].license_key
               /\ SentBody(c).device_id = OverrideOr(opts[c].device_id, cell.value)
               /\ SentBody(c).device_name =
                    OverrideOr(opts[c].device_name, ExpectedName(os, cell.value))
               /\ SentBody(c).device_platform =
                    OverrideOr(opts[c].device_platform, PlatformName(ExpectedPlatform(os)))
       /\ (Sends(c) /\ op[c] = "activate_license")
            => /\ SentBody(c).license_key = opts[c].license_key
               /\ SentBody(c).device_id = cell.value
               /\ SentBody(c).device_name = ExpectedName(os, cell.value)
               /\ SentBody(c).device_platform = PlatformName(ExpectedPlatform(os))
       /\ (Sends(c) /\ op[c] = "validate")
            => /\ SentBody(c).license_key = opts[c].license_key
               /\ SentBody(c).device_id = OverrideOr(opts[c].device_id, cell.value)
       /\ (Sends(c) /\ op[c] \in {"validate_license", "is_valid"})
            => /\ SentBody(c).license_key = opts[c].license_key
               /\ SentBody(c).device_id = cell.value
       /\ (pc[c] = "idle" /\ pc'[c] = "start") => (cell' = cell /\ dev'[c] = <<>>)]_vars

\* an activate request with the caller's device_id and, for the name and
\* the platform the caller left unset, the defaults of a machine without a
\* hostname
C14_Witness ==
  /\ pc[1] = "sent" /\ op[1] = "activate"
  /\ opts[1].device_id = <<T_dev_A>> /\ opts[1].device_name = <<>>
  /\ os.hostname = <<>>
  /\ reqs[1][1].body[1].device_id = T_dev_A
  /\ reqs[1][1].body[1].device_name = S_device_ \o SubSeq(cell.value, 1, 8)
  /\ reqs[1][1].body[1].device_platform = S_macos

(* C15: deactivate_current(key) sends the request deactivate sends for the  *)
(* key and the process's cached device id, to the same endpoint, and        *)
(* returns what deactivate returns for the response; deactivate itself      *)
(* sends exactly the device_id the caller gave and reads no default.        *)
C15_DeactivateCurrent ==
  /\ [](\A c \in Callers :
          (Done(c) /\ op[c] = "deactivate_current")
            => /\ result[c] = deactivate(resp[c])
               /\ Len(reqs[c]) = 1)
  /\ [][\A c \in Callers :
          /\ (Sends(c) /\ op[c] = "deactivate_current")
               => /\ cell.state = "done"
                  /\ SentBody(c) = [license_key |-> opts[c].license_key,
                                    device_id |-> cell.value]
                  /\ reqs'[c][1] =
                       RequestOf(base_url, api_key, "deactivate",
                                 [license_key |-> opts[c].license_key,
                                  device_id |-> cell.value], os, <<>>)
          /\ (Sends(c) /\ op[c] = "deactivate")
               => /\ SentBody(c) = [license_key |-> opts[c].license_key,
                                    device_id |-> opts[c].device_id]
                  /\ reqs'[c][1].url[2] = "/api/v1/licenses/deactivate"
                  /\ pc[c] = "start" /\ dev[c] = <<>>]_vars

\* deactivate_current has returned a success after sending the cached id
C15_Witness ==
  /\ Done(1) /\ op[1] = "deactivate_current"
  /\ cell.state = "done" /\ Len(cell.value) = 32
  /\ reqs[1][1].body[1].device_id = cell.value
  /\ reqs[1][1].url[2] = "/api/v1/licenses/deactivate"
  /\ result[1].ok

\* a call of get_device_info by c returns in this step
GetDeviceInfoReturns(c) == op[c] = "get_device_info" /\ pc[c] = "ready" /\ pc'[c] = "done"

\* sys_info gave a hostname that is not empty
HasHostname(e) == e.hostname # <<>> /\ e.hostname[1] # <<>>

\* the build is for Windows and sys_info::info() gave a user name that is
\* neither empty nor "Unknown"
HasUsername(e) ==
  /\ e.windows /\ e.info # <<>>
  /\ e.info[1].username \notin {<<>>, << <<>> >>, << <<"U","n","k","n","o","w","n">> >>}

\* the snapshot is a record with the cached id and a name, never an error
SnapshotIsComplete(r) ==
  /\ DOMAIN r = {"plain"}
  /\ r.plain.device_id = cell.value /\ Len(r.plain.device_id) = 32
  /\ r.plain.device_name # <<>>

(* C16 as stated: get_device_name returns the OS hostname when it is        *)
(* available and non-empty and otherwise "device-" followed by the first 8  *)
(* characters of the device id; every get_device_info snapshot has a        *)
(* non-empty device_id and device_name and is never an error.               *)
C16_NameIsHostnameOrFallback ==
  [][\A c \in Callers :
       GetDeviceInfoReturns(c) =>
         /\ SnapshotIsComplete(result'[c])
         /\ result'[c].plain.device_name =
              IF HasHostname(os) THEN os.hostname[1]
              ELSE <<"d","e","v","i","c","e","-">> \o SubSeq(cell.value, 1, 8)]_vars

(* C16, amended: as above, except that a build for Windows to which         *)
(* sys_info::info() gives a user name that is neither empty nor "Unknown"   *)
(* returns "username-hostname" in place of the hostname.                    *)
C16_NameWithWindowsUsername ==
  [][\A c \in Callers :
       GetDeviceInfoReturns(c) =>
         /\ SnapshotIsComplete(result'[c])
         /\ result'[c].plain.device_name =
              IF HasHostname(os) /\ HasUsername(os)
                THEN os.info[1].username[1] \o <<"-">> \o os.hostname[1]
              ELSE IF HasHostname(os) THEN os.hostname[1]
              ELSE <<"d","e","v","i","c","e","-">> \o SubSeq(cell.value, 1, 8)]_vars

\* get_device_info has returned "bob-host1" on a build for Windows
C16_Witness ==
  /\ Done(1) /\ op[1] = "get_device_info"
  /\ os.windows /\ os.hostname = <<T_host1>> /\ os.info = <<[username |-> <<T_bob>>]>>
  /\ result[1].plain.device_name = T_bob \o <<"-">> \o T_host1
  /\ result[1].plain.device_id = cell.value

(* C17: every POST body of activate, validate and deactivate names its      *)
(* fields in camelCase after the option struct: licenseKey, deviceId,       *)
(* deviceName, devicePlatform and ipAddress in the activate body,           *)
(* licenseKey and deviceId in the validate and deactivate bodies; the IP    *)
(* address field is in the activate body only.                              *)
C17_CamelCaseBodies ==
  \A c \in Callers :
    \A i \in 1..Len(reqs[c]) :
      reqs[c][i].method = "POST" =>
        /\ op[c] \in ActivateOps =>
             DOMAIN reqs[c][i].body[1] =
               {"licenseKey", "deviceId", "deviceName", "devicePlatform", "ipAddress"}
        /\ op[c] \in ValidateOps \cup DeactivateOps =>
             DOMAIN reqs[c][i].body[1] = {"licenseKey", "deviceId"}

\* the body has a top-level `message` member that is a string
HasMessageString(b) == b.t = "obj" /\ "message" \in DOMAIN b.o /\ b.o["message"].t = "str"

\* the server's text: the `error` string, or else the `message` string, and
\* "Unknown error" when the body gives neither
ServerText(b) ==
  IF HasErrorString(b) THEN b.o["error"].s
  ELSE IF HasMessageString(b) THEN b.o["message"].s
  ELSE "Unknown error"

(* C18: for a non-2xx status other than 404, 422 and 429 (and a body that   *)
(* is JSON) the error message is "Server error: <status> - <text>" with the *)
(* text taken from the body's `error` string or else from its `message`     *)
(* string; "Unknown error" is the text only when the body gives neither, so *)
(* never for a body with a usable `message` string.                         *)
C18_ServerErrorText ==
  \A c \in Callers :
    (/\ Done(c) /\ op[c] \in ResultOps /\ resp[c].kind = "http"
     /\ resp[c].body.t # "invalid"
     /\ ~Is2xx(resp[c]) /\ resp[c].status \notin {404, 422, 429})
    => result[c] = Failure(op[c], "Server error: " \o StatusDisplay(resp[c].status)
                                  \o " - " \o ServerText(resp[c].body))

\* the success shape of the operations that return the parsed body
ShapeOf(o) ==
  CASE o \in ActivateOps -> TStruct("ActivateResponse")
    [] o \in {"validate", "validate_license"} -> TStruct("ValidateResponse")
    [] o \in DeactivateOps -> TStruct("DeactivateResponse")
    [] o = "get_info" -> TStruct("LicenseInfoResponse")

ShapedOps == ActivateOps \cup {"validate", "validate_license"} \cup DeactivateOps
             \cup {"get_info"}

\* the JSON value j has the shape ty: a struct is a JSON object with every
\* field that is not optional present, and every field present of its type
RECURSIVE MatchesShape(_, _)
MatchesShape(ty, j) ==
  CASE ty.k = "bool" -> j.t = "bool"
    [] ty.k = "string" -> j.t = "str"
    [] ty.k = "u32" -> j.t = "num" /\ j.n >= 0
    [] ty.k = "option" -> j.t = "null" \/ MatchesShape(ty.of, j)
    [] ty.k = "vec" -> j.t = "arr" /\ \A i \in 1..Len(j.a) : MatchesShape(ty.of, j.a[i])
    [] ty.k = "struct" ->
         /\ j.t = "obj"
         /\ \A i \in 1..Len(FieldsOf(ty.name)) :
              LET f == FieldsOf(ty.name)[i]
              IN  IF f[2] \in DOMAIN j.o THEN MatchesShape(f[3], j.o[f[2]])
                  ELSE f[3].k = "option"

\* a finished call of c whose 2xx JSON body carries no embedded failure signal
CleanSuccess(c) ==
  /\ Done(c) /\ op[c] \in ShapedOps /\ Is2xx(resp[c]) /\ resp[c].body.t # "invalid"
  /\ ~HasErrorString(resp[c].body) /\ ~HasSuccessFalse(resp[c].body)

\* the failures of the status-code step: what the operations return for a
\* non-2xx status with a JSON body
StatusFailures ==
  {<<o, OutcomeOf(o, x)>> :
     o \in {"activate", "validate", "deactivate", "get_info"},
     x \in {y \in Exchanges : y.kind = "http" /\ y.body.t # "invalid" /\ ~Is2xx(y)}}

\* the failures of the embedded-failure step, where an operation has it: an
\* `error` string in activate, validate and deactivate, a false `success`
\* in activate and deactivate
EmbeddedFailures ==
  {<<o, OutcomeOf(o, x)>> :
     o \in {"activate", "validate", "deactivate"},
     x \in {y \in Exchanges : y.kind = "http" /\ Is2xx(y) /\ HasErrorString(y.body)}}
  \cup
  {<<o, OutcomeOf(o, x)>> :
     o \in {"activate", "deactivate"},
     x \in {y \in Exchanges : y.kind = "http" /\ Is2xx(y) /\ HasSuccessFalse(y.body)}}

\* the errors the server reports
ServerReportedFailures == StatusFailures \cup EmbeddedFailures

\* the operation whose failures o returns
BaseOp(o) ==
  CASE o \in ActivateOps -> "activate"
    [] o \in ValidateOps -> "validate"
    [] o \in DeactivateOps -> "deactivate"
    [] o \in InfoOps -> "get_info"

\* a body that does not have the success shape yields an error
C19_MismatchFails ==
  \A c \in Callers :
    (CleanSuccess(c) /\ ~MatchesShape(ShapeOf(op[c]), resp[c].body)) => ~result[c].ok

\* and that error is none of the errors the server can report
C19_Distinguishable ==
  \A c \in Callers :
    (CleanSuccess(c) /\ ~MatchesShape(ShapeOf(op[c]), resp[c].body) /\ ~result[c].ok)
      => <<BaseOp(op[c]), result[c]>> \notin ServerReportedFailures

\* a success value reproduces the fields of the body
C19_SuccessReproduces ==
  \A c \in Callers :
    (CleanSuccess(c) /\ MatchesShape(ShapeOf(op[c]), resp[c].body))
      => LET b == resp[c].body.o
         IN  /\ result[c].ok
             /\ op[c] \notin DeactivateOps =>
                  LET l == b["license"].o
                  IN  /\ result[c].val.license.key = l["key"].s
                      /\ result[c].val.license.status = l["status"].s
                      /\ result[c].val.license.license_type = l["type"].s
                      /\ result[c].val.license.max_devices = l["maxDevices"].n
                      /\ result[c].val.license.expires_at =
                           (IF "expiresAt" \in DOMAIN l /\ l["expiresAt"].t = "str"
                              THEN <<l["expiresAt"].s>> ELSE <<>>)
             /\ op[c] \in DeactivateOps =>
                  /\ result[c].val.message = b["message"].s
                  /\ result[c].val.activation.device_id = b["activation"].o["deviceId"].s
             /\ op[c] \in ActivateOps \cup DeactivateOps
                  => result[c].val.success = b["success"].b
             /\ op[c] \in {"validate", "validate_license"}
                  => result[c].val.valid = b["valid"].b

(* C19: for every operation, a 2xx response with no embedded failure signal *)
(* whose JSON body does not have the operation's success shape (a required  *)
(* field missing or of the wrong type) yields an error that is reported as  *)
(* a deserialization error, distinguishable from the errors the server      *)
(* reports through the status code or the embedded signals; a success is    *)
(* returned only for a body of the shape, and it reproduces the body's      *)
(* fields, a null or absent expires_at being no expiration.                 *)
C19_DeserializationErrors ==
  /\ C19_MismatchFails
  /\ C19_Distinguishable
  /\ C19_SuccessReproduces

====
